---- MODULE Spec2Model ----
(***************************************************************************)
(* Model of the enclave key manager, crypto/key_manager.rs.                *)
(*                                                                         *)
(* A Keychain holds five optional fields.  Keychain::new loads the seed    *)
(* and the registration key from the sealed store and runs the derivation. *)
(* The process holds the lazily built, immutable global KEY_MANAGER and    *)
(* any number of Keychains that callers build themselves with the public   *)
(* Keychain::new; only the latter can be mutated (&mut self).              *)
(*                                                                         *)
(* An Option is a sequence of length at most one: None is << >> and        *)
(* Some(v) is <<v>>.  Seeds, key pairs and AES keys are their bytes, taken *)
(* from small integer ranges.                                              *)
(***************************************************************************)
EXTENDS Integers, Sequences, FiniteSets, TLC

\* ---------------------------------------------------------------- bounds
MaxSeed == 3
MaxRegKey == 2

\* ------------------------------------------------ external key primitives
KeyModulus == 16
SecretKeyOrder == 13

CONSENSUS_SEED_EXCHANGE_KEYPAIR_DERIVE_ORDER == 1
CONSENSUS_IO_EXCHANGE_KEYPAIR_DERIVE_ORDER == 2
CONSENSUS_STATE_IKM_DERIVE_ORDER == 3

CONSENSUS_SEED_SEALING_PATH == "consensus_seed.sealed"
REGISTRATION_KEY_SEALING_PATH == "new_node_seed_exchange_keypair.sealed"

None == << >>
Some(v) == <<v>>
is_some(o) == o # None
unwrap(o) == o[1]

Ok(v) == [ok |-> TRUE, val |-> v]
Err(e) == [ok |-> FALSE, val |-> e]

Seeds == 1..MaxSeed
RegKeys == 1..MaxRegKey

\* Seed::derive_key_from_this: a keyed mix of the seed and the tag.
derive_key_from_this(seed, tag) == (4 * seed + 13 * tag + 8) % KeyModulus

\* KeyPair::new_from_slice: the bytes must be a valid secret scalar.
KeyPair_new_from_slice(bytes) ==
    IF bytes > 0 /\ bytes < SecretKeyOrder THEN Ok(bytes) ELSE Err("KeyError")

\* AESKey::new_from_slice: total.
AESKey_new_from_slice(bytes) == bytes

\* ------------------------------------------------------------ sealed store
\* A sealed file is absent (None) or holds a blob; CorruptBlob stands for
\* contents that fail to decrypt.
CorruptBlob == 0 - 1

Paths == {CONSENSUS_SEED_SEALING_PATH, REGISTRATION_KEY_SEALING_PATH}

\* Seed::unseal / KeyPair::unseal
unseal(files, path) ==
    IF is_some(files[path]) /\ unwrap(files[path]) # CorruptBlob
    THEN Ok(unwrap(files[path]))
    ELSE Err("FailedUnseal")

\* Seed::seal / KeyPair::seal, when the write succeeds
seal(files, path, material) == [files EXCEPT ![path] = Some(material)]

\* ---------------------------------------------------------------- Keychain
EmptyKeychain ==
    [consensus_seed |-> None,
     consensus_state_ikm |-> None,
     consensus_seed_exchange_keypair |-> None,
     consensus_io_exchange_keypair |-> None,
     registration_key |-> None]

is_registration_key_set(k) == is_some(k.registration_key)
is_consensus_state_ikm_set(k) == is_some(k.consensus_state_ikm)
is_consensus_seed_exchange_keypair_set(k) == is_some(k.consensus_seed_exchange_keypair)
is_consensus_io_exchange_keypair_set(k) == is_some(k.consensus_io_exchange_keypair)
is_consensus_seed_set(k) == is_some(k.consensus_seed)

get_consensus_state_ikm(k) ==
    IF is_some(k.consensus_state_ikm)
    THEN Ok(unwrap(k.consensus_state_ikm)) ELSE Err("ParsingError")

get_consensus_seed(k) ==
    IF is_some(k.consensus_seed)
    THEN Ok(unwrap(k.consensus_seed)) ELSE Err("ParsingError")

seed_exchange_key(k) ==
    IF is_some(k.consensus_seed_exchange_keypair)
    THEN Ok(unwrap(k.consensus_seed_exchange_keypair)) ELSE Err("ParsingError")

\* Variant: reads the seed exchange key pair's field.
get_consensus_io_exchange_keypair_other_field(k) ==
    IF is_some(k.consensus_seed_exchange_keypair)
    THEN Ok(unwrap(k.consensus_seed_exchange_keypair)) ELSE Err("ParsingError")

get_consensus_io_exchange_keypair(k) ==
    IF is_some(k.consensus_io_exchange_keypair)
    THEN Ok(unwrap(k.consensus_io_exchange_keypair)) ELSE Err("ParsingError")

get_registration_key(k) ==
    IF is_some(k.registration_key)
    THEN Ok(unwrap(k.registration_key)) ELSE Err("ParsingError")

\* The in-memory setters.
set_consensus_seed_exchange_keypair(k, kp) ==
    [k EXCEPT !.consensus_seed_exchange_keypair = Some(kp)]

set_consensus_io_exchange_keypair(k, kp) ==
    [k EXCEPT !.consensus_io_exchange_keypair = Some(kp)]

set_consensus_state_ikm(k, ikm) ==
    [k EXCEPT !.consensus_state_ikm = Some(ikm)]

\* A call on a Keychain yields the Keychain after the call and the result
\* returned to the caller.
Outcome(k, res) == [keys |-> k, res |-> res]

\* Variant: an unset seed is reported as an error.
generate_consensus_master_keys_err_unset(k) ==
    IF ~is_some(k.consensus_seed) THEN Outcome(k, Err("FailedUnseal"))
    ELSE
      LET sx == KeyPair_new_from_slice(
                  derive_key_from_this(unwrap(k.consensus_seed),
                                       CONSENSUS_SEED_EXCHANGE_KEYPAIR_DERIVE_ORDER))
          io == KeyPair_new_from_slice(
                  derive_key_from_this(unwrap(k.consensus_seed),
                                       CONSENSUS_IO_EXCHANGE_KEYPAIR_DERIVE_ORDER))
          ikm == AESKey_new_from_slice(
                   derive_key_from_this(unwrap(k.consensus_seed),
                                        CONSENSUS_STATE_IKM_DERIVE_ORDER))
      IN IF ~sx.ok THEN Outcome(k, Err("FailedUnseal"))
         ELSE IF ~io.ok
              THEN Outcome(set_consensus_seed_exchange_keypair(k, sx.val), Err("FailedUnseal"))
              ELSE Outcome(set_consensus_state_ikm(
                             set_consensus_io_exchange_keypair(
                               set_consensus_seed_exchange_keypair(k, sx.val), io.val), ikm),
                           Ok(0))

\* Variant: all three keys are derived first and committed only together.
generate_consensus_master_keys_all_or_nothing(k) ==
    IF ~is_some(k.consensus_seed) THEN Outcome(k, Ok(0))
    ELSE
      LET sx == KeyPair_new_from_slice(
                  derive_key_from_this(unwrap(k.consensus_seed),
                                       CONSENSUS_SEED_EXCHANGE_KEYPAIR_DERIVE_ORDER))
          io == KeyPair_new_from_slice(
                  derive_key_from_this(unwrap(k.consensus_seed),
                                       CONSENSUS_IO_EXCHANGE_KEYPAIR_DERIVE_ORDER))
          ikm == AESKey_new_from_slice(
                   derive_key_from_this(unwrap(k.consensus_seed),
                                        CONSENSUS_STATE_IKM_DERIVE_ORDER))
      IN IF ~sx.ok \/ ~io.ok THEN Outcome(k, Err("FailedUnseal"))
         ELSE Outcome(set_consensus_state_ikm(
                        set_consensus_io_exchange_keypair(
                          set_consensus_seed_exchange_keypair(k, sx.val), io.val), ikm),
                      Ok(0))

\* Variant: a derived field that is already set is kept as it is.
generate_consensus_master_keys_keep_existing(k) ==
    IF ~is_some(k.consensus_seed) THEN Outcome(k, Ok(0))
    ELSE
      LET sx == KeyPair_new_from_slice(
                  derive_key_from_this(unwrap(k.consensus_seed),
                                       CONSENSUS_SEED_EXCHANGE_KEYPAIR_DERIVE_ORDER))
          io == KeyPair_new_from_slice(
                  derive_key_from_this(unwrap(k.consensus_seed),
                                       CONSENSUS_IO_EXCHANGE_KEYPAIR_DERIVE_ORDER))
          ikm == AESKey_new_from_slice(
                   derive_key_from_this(unwrap(k.consensus_seed),
                                        CONSENSUS_STATE_IKM_DERIVE_ORDER))
          k1 == IF is_some(k.consensus_seed_exchange_keypair) THEN k
                ELSE set_consensus_seed_exchange_keypair(k, sx.val)
          k2 == IF is_some(k1.consensus_io_exchange_keypair) THEN k1
                ELSE set_consensus_io_exchange_keypair(k1, io.val)
          k3 == IF is_some(k2.consensus_state_ikm) THEN k2
                ELSE set_consensus_state_ikm(k2, ikm)
      IN IF ~sx.ok THEN Outcome(k, Err("FailedUnseal"))
         ELSE IF ~io.ok THEN Outcome(k1, Err("FailedUnseal"))
              ELSE Outcome(k3, Ok(0))

\* generate_consensus_master_keys: the three steps in order, each `?`
\* returning at once with the fields committed so far.
generate_consensus_master_keys(k) ==
    IF ~is_consensus_seed_set(k) THEN Outcome(k, Ok(0))
    ELSE
      LET sx == KeyPair_new_from_slice(
                  derive_key_from_this(unwrap(k.consensus_seed),
                                       CONSENSUS_SEED_EXCHANGE_KEYPAIR_DERIVE_ORDER))
      IN IF ~sx.ok THEN Outcome(k, Err("FailedUnseal"))
         ELSE
           LET k1 == set_consensus_seed_exchange_keypair(k, sx.val)
               io == KeyPair_new_from_slice(
                       derive_key_from_this(unwrap(k1.consensus_seed),
                                            CONSENSUS_IO_EXCHANGE_KEYPAIR_DERIVE_ORDER))
           IN IF ~io.ok THEN Outcome(k1, Err("FailedUnseal"))
              ELSE
                LET k2 == set_consensus_io_exchange_keypair(k1, io.val)
                    ikm == AESKey_new_from_slice(
                             derive_key_from_this(unwrap(k2.consensus_seed),
                                                  CONSENSUS_STATE_IKM_DERIVE_ORDER))
                IN Outcome(set_consensus_state_ikm(k2, ikm), Ok(0))

\* Variant: the seed is unsealed from the registration key's path.
Keychain_new_wrong_path(files) ==
    LET s == unseal(files, REGISTRATION_KEY_SEALING_PATH)
        r == unseal(files, REGISTRATION_KEY_SEALING_PATH)
        x == [EmptyKeychain EXCEPT
                !.consensus_seed = IF s.ok THEN Some(s.val) ELSE None,
                !.registration_key = IF r.ok THEN Some(r.val) ELSE None]
    IN generate_consensus_master_keys(x).keys

\* Variant: a failed unseal of the seed ends the construction at once.
Keychain_new_fail_fast(files) ==
    LET s == unseal(files, CONSENSUS_SEED_SEALING_PATH)
        r == unseal(files, REGISTRATION_KEY_SEALING_PATH)
        x == [EmptyKeychain EXCEPT
                !.consensus_seed = IF s.ok THEN Some(s.val) ELSE None,
                !.registration_key = IF r.ok THEN Some(r.val) ELSE None]
    IN IF ~s.ok THEN EmptyKeychain ELSE generate_consensus_master_keys(x).keys

\* Variant: a seed that cannot be unsealed is replaced by a fixed seed.
Keychain_new_default_seed(files) ==
    LET s == unseal(files, CONSENSUS_SEED_SEALING_PATH)
        r == unseal(files, REGISTRATION_KEY_SEALING_PATH)
        x == [EmptyKeychain EXCEPT
                !.consensus_seed = IF s.ok THEN Some(s.val) ELSE Some(1),
                !.registration_key = IF r.ok THEN Some(r.val) ELSE None]
    IN generate_consensus_master_keys(x).keys

\* Keychain::new: both unseals, then the derivation, whose result is dropped.
Keychain_new(files) ==
    LET s == unseal(files, CONSENSUS_SEED_SEALING_PATH)
        r == unseal(files, REGISTRATION_KEY_SEALING_PATH)
        x == [EmptyKeychain EXCEPT
                !.consensus_seed = IF s.ok THEN Some(s.val) ELSE None,
                !.registration_key = IF r.ok THEN Some(r.val) ELSE None]
    IN generate_consensus_master_keys(x).keys

\* A call that seals also yields the sealed store after the call.
Stored(k, files, res) == [keys |-> k, files |-> files, res |-> res]

\* Variant: the in-memory commit is made before the seal is attempted.
set_registration_key_commit_first(k, files, kp, sealOk) ==
    LET k1 == [k EXCEPT !.registration_key = Some(kp)]
    IN IF ~sealOk THEN Stored(k1, files, Err("FailedSeal"))
       ELSE Stored(k1, seal(files, REGISTRATION_KEY_SEALING_PATH, kp), Ok(0))

\* Variant: the registration key is sealed at the seed's path.
set_registration_key_seed_path(k, files, kp, sealOk) ==
    IF ~sealOk THEN Stored(k, files, Err("FailedSeal"))
    ELSE Stored([k EXCEPT !.registration_key = Some(kp)],
                seal(files, CONSENSUS_SEED_SEALING_PATH, kp), Ok(0))

\* set_registration_key: seal, return the seal's error, else commit.
set_registration_key(k, files, kp, sealOk) ==
    IF ~sealOk THEN Stored(k, files, Err("FailedSeal"))
    ELSE Stored([k EXCEPT !.registration_key = Some(kp)],
                seal(files, REGISTRATION_KEY_SEALING_PATH, kp), Ok(0))

\* Variant: the in-memory commit is made before the seal is attempted.
set_consensus_seed_commit_first(k, files, seed, sealOk) ==
    LET k1 == [k EXCEPT !.consensus_seed = Some(seed)]
    IN IF ~sealOk THEN Stored(k1, files, Err("FailedSeal"))
       ELSE Stored(k1, seal(files, CONSENSUS_SEED_SEALING_PATH, seed), Ok(0))

\* Variant: the derivation runs right after the commit.
set_consensus_seed_rederive(k, files, seed, sealOk) ==
    IF ~sealOk THEN Stored(k, files, Err("FailedSeal"))
    ELSE LET o == generate_consensus_master_keys([k EXCEPT !.consensus_seed = Some(seed)])
         IN Stored(o.keys, seal(files, CONSENSUS_SEED_SEALING_PATH, seed), o.res)

\* set_consensus_seed: seal, return the seal's error, else commit.
set_consensus_seed(k, files, seed, sealOk) ==
    IF ~sealOk THEN Stored(k, files, Err("FailedSeal"))
    ELSE Stored([k EXCEPT !.consensus_seed = Some(seed)],
                seal(files, CONSENSUS_SEED_SEALING_PATH, seed), Ok(0))

\* Variant: the result of set_consensus_seed is dropped.
create_consensus_seed_ignore_seal_error(k, files, gen, sealOk) ==
    IF gen.ok
    THEN LET o == set_consensus_seed(k, files, gen.val, sealOk)
         IN Stored(o.keys, o.files, Ok(0))
    ELSE Stored(k, files, gen)

\* create_consensus_seed: gen is the result of Seed::new.
create_consensus_seed(k, files, gen, sealOk) ==
    IF gen.ok
    THEN LET o == set_consensus_seed(k, files, gen.val, sealOk)
         IN Stored(o.keys, o.files, IF o.res.ok THEN Ok(0) ELSE Err("KeyError"))
    ELSE Stored(k, files, gen)

\* create_registration_key: gen is the result of KeyPair::new.
create_registration_key(k, files, gen, sealOk) ==
    IF gen.ok
    THEN LET o == set_registration_key(k, files, gen.val, sealOk)
         IN Stored(o.keys, o.files, IF o.res.ok THEN Ok(0) ELSE Err("KeyError"))
    ELSE Stored(k, files, gen)

\* ------------------------------------------------------------------- state
KEY_MANAGER == "KEY_MANAGER"
Locals == {"keys"}
Holders == Locals \cup {KEY_MANAGER}

VARIABLES
    chain,      \* chain[h]: the Keychain held by h
    built,      \* the holders whose Keychain has been constructed
    sealed,     \* sealed[path]: the sealed file at path
    last,       \* the most recent call
    prev,       \* the call before it, kept when it was a successful
                \* set_consensus_seed or set_registration_key and the most
                \* recent call is a construction or a derivation; after a
                \* Crash, the set call it interrupted between seal and commit
    direct      \* the holders on whose Keychain an in-memory setter was
                \* called from outside the derivation

vars == <<chain, built, sealed, last, prev, direct>>

Call(op, h, arg, res) ==
    [op |-> op, holder |-> h, arg |-> arg, res |-> res]

NoCall == Call("none", KEY_MANAGER, 0, Ok(0))

SealingSets == {"set_consensus_seed", "set_registration_key"}
Followers == {"new", "generate_consensus_master_keys"}

FileContents(vals) == {None, Some(CorruptBlob)} \cup {Some(v) : v \in vals}

Init ==
    /\ chain = [h \in Holders |-> EmptyKeychain]
    /\ built = {}
    /\ sealed \in {f \in [Paths -> FileContents(Seeds \cup RegKeys)] :
                     /\ f[CONSENSUS_SEED_SEALING_PATH] \in FileContents(Seeds)
                     /\ f[REGISTRATION_KEY_SEALING_PATH] \in FileContents(RegKeys)}
    /\ last = NoCall
    /\ prev = NoCall
    /\ direct = {}

Record(c) ==
    /\ last' = c
    /\ prev' = IF c.op \in Followers /\ last.op \in SealingSets /\ last.res.ok
               THEN last ELSE NoCall

\* The result of the derivation that runs inside Keychain::new.
DeriveInNew(files) ==
    LET s == unseal(files, CONSENSUS_SEED_SEALING_PATH)
    IN generate_consensus_master_keys(
         [EmptyKeychain EXCEPT !.consensus_seed = IF s.ok THEN Some(s.val) ELSE None]).res

\* First dereference of the lazy static.
InitKeyManager ==
    /\ KEY_MANAGER \notin built
    /\ chain' = [chain EXCEPT ![KEY_MANAGER] = Keychain_new(sealed)]
    /\ built' = built \cup {KEY_MANAGER}
    /\ Record(Call("new", KEY_MANAGER, 0, Ok(0)))
    /\ UNCHANGED <<sealed, direct>>

\* A caller builds (or rebuilds) its own Keychain.
New(h) ==
    /\ chain' = [chain EXCEPT ![h] = Keychain_new(sealed)]
    /\ built' = built \cup {h}
    /\ Record(Call("new", h, 0, Ok(0)))
    /\ direct' = direct \ {h}
    /\ UNCHANGED sealed

SetRegistrationKey(h, kp, sealOk) ==
    /\ h \in built
    /\ LET o == set_registration_key(chain[h], sealed, kp, sealOk)
       IN /\ chain' = [chain EXCEPT ![h] = o.keys]
          /\ sealed' = o.files
          /\ Record(Call("set_registration_key", h, kp, o.res))
    /\ UNCHANGED <<built, direct>>

SetConsensusSeed(h, seed, sealOk) ==
    /\ h \in built
    /\ LET o == set_consensus_seed(chain[h], sealed, seed, sealOk)
       IN /\ chain' = [chain EXCEPT ![h] = o.keys]
          /\ sealed' = o.files
          /\ Record(Call("set_consensus_seed", h, seed, o.res))
    /\ UNCHANGED <<built, direct>>

GenerateConsensusMasterKeys(h) ==
    /\ h \in built
    /\ LET o == generate_consensus_master_keys(chain[h])
       IN /\ chain' = [chain EXCEPT ![h] = o.keys]
          /\ Record(Call("generate_consensus_master_keys", h, 0, o.res))
    /\ UNCHANGED <<built, sealed, direct>>

\* gen: the outcome of Seed::new.
CreateConsensusSeed(h, gen, sealOk) ==
    /\ h \in built
    /\ LET o == create_consensus_seed(chain[h], sealed, gen, sealOk)
       IN /\ chain' = [chain EXCEPT ![h] = o.keys]
          /\ sealed' = o.files
          /\ Record(Call("create_consensus_seed", h, IF gen.ok THEN gen.val ELSE 0, o.res))
    /\ UNCHANGED <<built, direct>>

\* gen: the outcome of KeyPair::new.
CreateRegistrationKey(h, gen, sealOk) ==
    /\ h \in built
    /\ LET o == create_registration_key(chain[h], sealed, gen, sealOk)
       IN /\ chain' = [chain EXCEPT ![h] = o.keys]
          /\ sealed' = o.files
          /\ Record(Call("create_registration_key", h, IF gen.ok THEN gen.val ELSE 0, o.res))
    /\ UNCHANGED <<built, direct>>

\* The key a holder passes to an in-memory setter: a valid one that no seed of
\* the model derives.
DirectKeys == {SecretKeyOrder - 1}

\* The public in-memory setters, called by a holder from outside the derivation.
SetConsensusSeedExchangeKeypair(h, kp) ==
    /\ h \in built
    /\ chain' = [chain EXCEPT ![h] = set_consensus_seed_exchange_keypair(chain[h], kp)]
    /\ Record(Call("set_consensus_seed_exchange_keypair", h, kp, Ok(0)))
    /\ direct' = direct \cup {h}
    /\ UNCHANGED <<built, sealed>>

SetConsensusIoExchangeKeypair(h, kp) ==
    /\ h \in built
    /\ chain' = [chain EXCEPT ![h] = set_consensus_io_exchange_keypair(chain[h], kp)]
    /\ Record(Call("set_consensus_io_exchange_keypair", h, kp, Ok(0)))
    /\ direct' = direct \cup {h}
    /\ UNCHANGED <<built, sealed>>

SetConsensusStateIkm(h, ikm) ==
    /\ h \in built
    /\ chain' = [chain EXCEPT ![h] = set_consensus_state_ikm(chain[h], ikm)]
    /\ Record(Call("set_consensus_state_ikm", h, ikm, Ok(0)))
    /\ direct' = direct \cup {h}
    /\ UNCHANGED <<built, sealed>>

GenSeed == {Err("KeyError")} \cup {Ok(s) : s \in Seeds}
GenKeyPair == {Err("KeyError")} \cup {Ok(kp) : kp \in RegKeys}

Next ==
    \/ InitKeyManager
    \/ \E h \in Locals : New(h)
    \/ \E h \in Locals, gen \in GenSeed, sealOk \in BOOLEAN : CreateConsensusSeed(h, gen, sealOk)
    \/ \E h \in Locals, gen \in GenKeyPair, sealOk \in BOOLEAN : CreateRegistrationKey(h, gen, sealOk)
    \/ \E h \in Locals, kp \in DirectKeys : SetConsensusSeedExchangeKeypair(h, kp)
    \/ \E h \in Locals, kp \in DirectKeys : SetConsensusIoExchangeKeypair(h, kp)
    \/ \E h \in Locals, ikm \in DirectKeys : SetConsensusStateIkm(h, ikm)
    \/ \E h \in Locals, kp \in RegKeys, sealOk \in BOOLEAN : SetRegistrationKey(h, kp, sealOk)
    \/ \E h \in Locals, s \in Seeds, sealOk \in BOOLEAN : SetConsensusSeed(h, s, sealOk)
    \/ \E h \in Locals : GenerateConsensusMasterKeys(h)

Spec == Init /\ [][Next]_vars

\* ------------------------------------------------- seal and commit as steps
\* The calls that seal and then commit (set_consensus_seed,
\* set_registration_key, and the create_ calls through them) at the grain of
\* their two effects, in a process that can stop at any point: the seal that
\* succeeded, then the commit to memory. A call between the two is recorded
\* in last under the names in Sealing; the other calls run as in Next, while
\* no call is between its seal and its commit.
SealedSeed == "set_consensus_seed: sealed"
SealedRegistrationKey == "set_registration_key: sealed"
SealedCreatedSeed == "create_consensus_seed: sealed"
SealedCreatedRegistrationKey == "create_registration_key: sealed"
Sealing ==
    {SealedSeed, SealedRegistrationKey, SealedCreatedSeed, SealedCreatedRegistrationKey}

InCall == last.op \in Sealing

\* Variant: the seal reports success and writes nothing.
SetConsensusSeedSeal_no_write(h, seed) ==
    /\ h \in built
    /\ ~InCall
    /\ Record(Call(SealedSeed, h, seed, Ok(0)))
    /\ UNCHANGED <<chain, built, sealed, direct>>

\* set_consensus_seed up to the return of a successful seed.seal
SetConsensusSeedSeal(h, seed) ==
    /\ h \in built
    /\ ~InCall
    /\ sealed' = set_consensus_seed(chain[h], sealed, seed, TRUE).files
    /\ Record(Call(SealedSeed, h, seed, Ok(0)))
    /\ UNCHANGED <<chain, built, direct>>

\* set_consensus_seed from there: the commit and the return
SetConsensusSeedCommit(h) ==
    /\ last.op = SealedSeed
    /\ last.holder = h
    /\ LET o == set_consensus_seed(chain[h], sealed, last.arg, TRUE)
       IN /\ chain' = [chain EXCEPT ![h] = o.keys]
          /\ Record(Call("set_consensus_seed", h, last.arg, o.res))
    /\ UNCHANGED <<sealed, built, direct>>

\* set_registration_key up to the return of a successful kp.seal
SetRegistrationKeySeal(h, kp) ==
    /\ h \in built
    /\ ~InCall
    /\ sealed' = set_registration_key(chain[h], sealed, kp, TRUE).files
    /\ Record(Call(SealedRegistrationKey, h, kp, Ok(0)))
    /\ UNCHANGED <<chain, built, direct>>

\* set_registration_key from there: the commit and the return
SetRegistrationKeyCommit(h) ==
    /\ last.op = SealedRegistrationKey
    /\ last.holder = h
    /\ LET o == set_registration_key(chain[h], sealed, last.arg, TRUE)
       IN /\ chain' = [chain EXCEPT ![h] = o.keys]
          /\ Record(Call("set_registration_key", h, last.arg, o.res))
    /\ UNCHANGED <<sealed, built, direct>>

\* create_consensus_seed with a generated seed, up to the return of the
\* successful seed.seal inside its set_consensus_seed
CreateConsensusSeedSeal(h, gen) ==
    /\ h \in built
    /\ ~InCall
    /\ gen.ok
    /\ sealed' = create_consensus_seed(chain[h], sealed, gen, TRUE).files
    /\ Record(Call(SealedCreatedSeed, h, gen.val, Ok(0)))
    /\ UNCHANGED <<chain, built, direct>>

\* create_consensus_seed from there: the commit and the return
CreateConsensusSeedCommit(h) ==
    /\ last.op = SealedCreatedSeed
    /\ last.holder = h
    /\ LET o == create_consensus_seed(chain[h], sealed, Ok(last.arg), TRUE)
       IN /\ chain' = [chain EXCEPT ![h] = o.keys]
          /\ Record(Call("create_consensus_seed", h, last.arg, o.res))
    /\ UNCHANGED <<sealed, built, direct>>

\* create_registration_key with a generated key pair, up to the return of
\* the successful kp.seal inside its set_registration_key
CreateRegistrationKeySeal(h, gen) ==
    /\ h \in built
    /\ ~InCall
    /\ gen.ok
    /\ sealed' = create_registration_key(chain[h], sealed, gen, TRUE).files
    /\ Record(Call(SealedCreatedRegistrationKey, h, gen.val, Ok(0)))
    /\ UNCHANGED <<chain, built, direct>>

\* create_registration_key from there: the commit and the return
CreateRegistrationKeyCommit(h) ==
    /\ last.op = SealedCreatedRegistrationKey
    /\ last.holder = h
    /\ LET o == create_registration_key(chain[h], sealed, Ok(last.arg), TRUE)
       IN /\ chain' = [chain EXCEPT ![h] = o.keys]
          /\ Record(Call("create_registration_key", h, last.arg, o.res))
    /\ UNCHANGED <<sealed, built, direct>>

\* The process stops: every Keychain is lost, the sealed files stay. prev
\* keeps the call that was between its seal and its commit, if any.
Crash ==
    /\ built # {}
    /\ chain' = [h \in Holders |-> EmptyKeychain]
    /\ built' = {}
    /\ direct' = {}
    /\ last' = Call("crash", KEY_MANAGER, 0, Ok(0))
    /\ prev' = IF InCall THEN last ELSE NoCall
    /\ UNCHANGED sealed

NextSteps ==
    \/ ~InCall /\ InitKeyManager
    \/ ~InCall /\ \E h \in Locals : New(h)
    \/ \E h \in Locals, gen \in GenSeed : CreateConsensusSeedSeal(h, gen)
    \/ \E h \in Locals : CreateConsensusSeedCommit(h)
    \/ ~InCall /\ \E h \in Locals, gen \in GenSeed, sealOk \in BOOLEAN :
                     ~(gen.ok /\ sealOk) /\ CreateConsensusSeed(h, gen, sealOk)
    \/ \E h \in Locals, gen \in GenKeyPair : CreateRegistrationKeySeal(h, gen)
    \/ \E h \in Locals : CreateRegistrationKeyCommit(h)
    \/ ~InCall /\ \E h \in Locals, gen \in GenKeyPair, sealOk \in BOOLEAN :
                     ~(gen.ok /\ sealOk) /\ CreateRegistrationKey(h, gen, sealOk)
    \/ ~InCall /\ \E h \in Locals, kp \in DirectKeys : SetConsensusSeedExchangeKeypair(h, kp)
    \/ ~InCall /\ \E h \in Locals, kp \in DirectKeys : SetConsensusIoExchangeKeypair(h, kp)
    \/ ~InCall /\ \E h \in Locals, ikm \in DirectKeys : SetConsensusStateIkm(h, ikm)
    \/ \E h \in Locals, s \in Seeds : SetConsensusSeedSeal(h, s)
    \/ \E h \in Locals : SetConsensusSeedCommit(h)
    \/ ~InCall /\ \E h \in Locals, s \in Seeds : SetConsensusSeed(h, s, FALSE)
    \/ \E h \in Locals, kp \in RegKeys : SetRegistrationKeySeal(h, kp)
    \/ \E h \in Locals : SetRegistrationKeyCommit(h)
    \/ ~InCall /\ \E h \in Locals, kp \in RegKeys : SetRegistrationKey(h, kp, FALSE)
    \/ ~InCall /\ \E h \in Locals : GenerateConsensusMasterKeys(h)
    \/ Crash

SpecSteps == Init /\ [][NextSteps]_vars

\* ------------------------------------------------- accessors and queries
\* A call through &self: its result is recorded, nothing is assigned.
Observe(op, h, res) ==
    /\ h \in built
    /\ Record(Call(op, h, 0, res))
    /\ UNCHANGED <<chain, built, sealed, direct>>

IsRegistrationKeySet(h) ==
    Observe("is_registration_key_set", h, Ok(is_registration_key_set(chain[h])))
IsConsensusStateIkmSet(h) ==
    Observe("is_consensus_state_ikm_set", h, Ok(is_consensus_state_ikm_set(chain[h])))
IsConsensusSeedExchangeKeypairSet(h) ==
    Observe("is_consensus_seed_exchange_keypair_set", h,
            Ok(is_consensus_seed_exchange_keypair_set(chain[h])))
IsConsensusIoExchangeKeypairSet(h) ==
    Observe("is_consensus_io_exchange_keypair_set", h,
            Ok(is_consensus_io_exchange_keypair_set(chain[h])))
IsConsensusSeedSet(h) ==
    Observe("is_consensus_seed_set", h, Ok(is_consensus_seed_set(chain[h])))
GetConsensusStateIkm(h) ==
    Observe("get_consensus_state_ikm", h, get_consensus_state_ikm(chain[h]))
GetConsensusSeed(h) ==
    Observe("get_consensus_seed", h, get_consensus_seed(chain[h]))
SeedExchangeKey(h) ==
    Observe("seed_exchange_key", h, seed_exchange_key(chain[h]))
GetConsensusIoExchangeKeypair(h) ==
    Observe("get_consensus_io_exchange_keypair", h,
            get_consensus_io_exchange_keypair(chain[h]))
GetRegistrationKey(h) ==
    Observe("get_registration_key", h, get_registration_key(chain[h]))

\* The Options a call on k unwraps, in the order it reaches them.
unwraps_get_consensus_state_ikm(k) ==
    IF is_some(k.consensus_state_ikm) THEN <<k.consensus_state_ikm>> ELSE << >>
unwraps_get_consensus_seed(k) ==
    IF is_some(k.consensus_seed) THEN <<k.consensus_seed>> ELSE << >>
unwraps_seed_exchange_key(k) ==
    IF is_some(k.consensus_seed_exchange_keypair)
    THEN <<k.consensus_seed_exchange_keypair>> ELSE << >>
unwraps_get_consensus_io_exchange_keypair(k) ==
    IF is_some(k.consensus_io_exchange_keypair)
    THEN <<k.consensus_io_exchange_keypair>> ELSE << >>
unwraps_get_registration_key(k) ==
    IF is_some(k.registration_key) THEN <<k.registration_key>> ELSE << >>
unwraps_generate_consensus_master_keys(k) ==
    IF ~is_consensus_seed_set(k) THEN << >>
    ELSE LET sx == KeyPair_new_from_slice(
                     derive_key_from_this(unwrap(k.consensus_seed),
                                          CONSENSUS_SEED_EXCHANGE_KEYPAIR_DERIVE_ORDER))
         IN <<k.consensus_seed>> \o
            IF ~sx.ok THEN << >>
            ELSE LET k1 == set_consensus_seed_exchange_keypair(k, sx.val)
                     io == KeyPair_new_from_slice(
                             derive_key_from_this(unwrap(k1.consensus_seed),
                                                  CONSENSUS_IO_EXCHANGE_KEYPAIR_DERIVE_ORDER))
                 IN <<k1.consensus_seed>> \o
                    IF ~io.ok THEN << >>
                    ELSE <<set_consensus_io_exchange_keypair(k1, io.val).consensus_seed>>

\* Option::unwrap panics on None.
Panics(us) == \E i \in DOMAIN us : ~is_some(us[i])

NextAccess ==
    \/ InitKeyManager
    \/ \E h \in Locals : New(h)
    \/ \E h \in Locals, gen \in GenSeed, sealOk \in BOOLEAN : CreateConsensusSeed(h, gen, sealOk)
    \/ \E h \in Locals, gen \in GenKeyPair, sealOk \in BOOLEAN : CreateRegistrationKey(h, gen, sealOk)
    \/ \E h \in Locals, kp \in DirectKeys : SetConsensusSeedExchangeKeypair(h, kp)
    \/ \E h \in Locals, kp \in DirectKeys : SetConsensusIoExchangeKeypair(h, kp)
    \/ \E h \in Locals, ikm \in DirectKeys : SetConsensusStateIkm(h, ikm)
    \/ \E h \in Locals, kp \in RegKeys, sealOk \in BOOLEAN : SetRegistrationKey(h, kp, sealOk)
    \/ \E h \in Locals, s \in Seeds, sealOk \in BOOLEAN : SetConsensusSeed(h, s, sealOk)
    \/ \E h \in Locals : GenerateConsensusMasterKeys(h)
    \/ \E h \in Holders : IsRegistrationKeySet(h)
    \/ \E h \in Holders : IsConsensusStateIkmSet(h)
    \/ \E h \in Holders : IsConsensusSeedExchangeKeypairSet(h)
    \/ \E h \in Holders : IsConsensusIoExchangeKeypairSet(h)
    \/ \E h \in Holders : IsConsensusSeedSet(h)
    \/ \E h \in Holders : GetConsensusStateIkm(h)
    \/ \E h \in Holders : GetConsensusSeed(h)
    \/ \E h \in Holders : SeedExchangeKey(h)
    \/ \E h \in Holders : GetConsensusIoExchangeKeypair(h)
    \/ \E h \in Holders : GetRegistrationKey(h)

SpecAccess == Init /\ [][NextAccess]_vars

\* --------------------------------------------------------------- properties
AllDerivedSet(k) ==
    /\ is_consensus_state_ikm_set(k)
    /\ is_consensus_seed_exchange_keypair_set(k)
    /\ is_consensus_io_exchange_keypair_set(k)

\* C1: in every observable state of every constructed Keychain, the seed is
\* set if and only if the state key, the seed exchange key pair and the I/O
\* exchange key pair are all set.
C1_SeedIffAllDerived ==
    \A h \in built : is_consensus_seed_set(chain[h]) <=> AllDerivedSet(chain[h])

\* The key an accessor must return for the seed currently held, per tag.
DerivedKey(k, tag) == derive_key_from_this(unwrap(k.consensus_seed), tag)

\* C2: whenever an accessor of derived material returns a key, the seed is
\* set and the key is the derivation of the current seed under its tag.
C2_NoStaleDerived ==
    \A h \in built :
      LET k == chain[h] IN
      /\ get_consensus_state_ikm(k).ok =>
            /\ get_consensus_seed(k).ok
            /\ get_consensus_state_ikm(k).val =
                 AESKey_new_from_slice(DerivedKey(k, CONSENSUS_STATE_IKM_DERIVE_ORDER))
      /\ seed_exchange_key(k).ok =>
            /\ get_consensus_seed(k).ok
            /\ seed_exchange_key(k) =
                 KeyPair_new_from_slice(DerivedKey(k, CONSENSUS_SEED_EXCHANGE_KEYPAIR_DERIVE_ORDER))
      /\ get_consensus_io_exchange_keypair(k).ok =>
            /\ get_consensus_seed(k).ok
            /\ get_consensus_io_exchange_keypair(k) =
                 KeyPair_new_from_slice(DerivedKey(k, CONSENSUS_IO_EXCHANGE_KEYPAIR_DERIVE_ORDER))

\* C3: a set_consensus_seed whose seal fails returns an error and leaves
\* every field of every Keychain as it was before the call.
C3_SealFailureKeepsKeychain ==
    [][last'.op = "set_consensus_seed" =>
         \A h \in Locals, s \in Seeds :
           SetConsensusSeed(h, s, FALSE) => (~last'.res.ok /\ chain' = chain)]_vars

\* A failed set_consensus_seed on a Keychain that holds another seed.
C3_Witness ==
    /\ last.op = "set_consensus_seed"
    /\ ~last.res.ok
    /\ is_consensus_seed_set(chain[last.holder])
    /\ unwrap(chain[last.holder].consensus_seed) # last.arg

\* C4: set_registration_key seals before it commits: when the seal fails the
\* call returns an error and the in-memory registration key is unchanged;
\* when it succeeds the call returns Ok, the key is sealed at the
\* registration path and get_registration_key returns it.
C4_RegistrationSealThenCommit ==
    [][last'.op = "set_registration_key" =>
       \A h \in Locals, kp \in RegKeys :
         /\ SetRegistrationKey(h, kp, FALSE) =>
               /\ ~last'.res.ok
               /\ chain'[h].registration_key = chain[h].registration_key
         /\ SetRegistrationKey(h, kp, TRUE) =>
               /\ last'.res.ok
               /\ get_registration_key(chain'[h]) = Ok(kp)
               /\ unseal(sealed', REGISTRATION_KEY_SEALING_PATH) = Ok(kp)]_vars

\* A failed set_registration_key on a Keychain that holds another key.
C4_Witness ==
    /\ last.op = "set_registration_key"
    /\ ~last.res.ok
    /\ is_registration_key_set(chain[last.holder])
    /\ get_registration_key(chain[last.holder]) # Ok(last.arg)

\* The last two calls were a successful set_consensus_seed and then
\* generate_consensus_master_keys on the same Keychain.
SetThenGenerate ==
    /\ prev.op = "set_consensus_seed"
    /\ prev.res.ok
    /\ last.op = "generate_consensus_master_keys"
    /\ last.holder = prev.holder

DerivedAccessorsFail(k) ==
    /\ ~get_consensus_state_ikm(k).ok
    /\ ~seed_exchange_key(k).ok
    /\ ~get_consensus_io_exchange_keypair(k).ok

\* C5 as stated: after a successful set_consensus_seed(s) followed by
\* generate_consensus_master_keys the seed is s and all three derived
\* materials are set; and on a Keychain whose seed was never loaded or set
\* (the seed is never cleared, so: whose seed is unset) the three accessors
\* of derived material fail.
C5_AsStated ==
    /\ SetThenGenerate =>
          /\ get_consensus_seed(chain[last.holder]) = Ok(prev.arg)
          /\ AllDerivedSet(chain[last.holder])
    /\ \A h \in built :
          ~is_consensus_seed_set(chain[h]) => DerivedAccessorsFail(chain[h])

Mutators ==
    {"set_consensus_seed", "create_consensus_seed",
     "set_registration_key", "create_registration_key"}

\* C6: all holders see one key manager state: a value installed by a
\* successful mutator is returned by the accessor of every holder, and no
\* two holders see different seeds or registration keys.
C6_OneStatePerProcess ==
    /\ \A h \in built :
          /\ (last.op \in {"set_consensus_seed", "create_consensus_seed"} /\ last.res.ok)
                => get_consensus_seed(chain[h]) = Ok(last.arg)
          /\ (last.op \in {"set_registration_key", "create_registration_key"} /\ last.res.ok)
                => get_registration_key(chain[h]) = Ok(last.arg)
    /\ \A h1, h2 \in built :
          /\ get_consensus_seed(chain[h1]) = get_consensus_seed(chain[h2])
          /\ get_registration_key(chain[h1]) = get_registration_key(chain[h2])

\* A Keychain was built right after a successful sealing set.
RestartAfter(op) ==
    /\ prev.op = op
    /\ prev.res.ok
    /\ last.op = "new"

\* The instance the seed was set on, after it runs the derivation.
OriginalDerived == generate_consensus_master_keys(chain[prev.holder])

C8_NewLoadsEachIndependently ==
    last.op = "new" =>
      LET k == chain[last.holder]
          s == unseal(sealed, CONSENSUS_SEED_SEALING_PATH)
          r == unseal(sealed, REGISTRATION_KEY_SEALING_PATH)
      IN /\ last.res.ok
         /\ last.holder \in built
         /\ is_consensus_seed_set(k) <=> s.ok
         /\ s.ok => get_consensus_seed(k) = s
         /\ is_registration_key_set(k) <=> r.ok
         /\ r.ok => get_registration_key(k) = r

\* A Keychain built while the seed file is corrupt and the registration key
\* unseals.
C8_Witness ==
    /\ last.op = "new"
    /\ sealed[CONSENSUS_SEED_SEALING_PATH] = Some(CorruptBlob)
    /\ is_registration_key_set(chain[last.holder])
    /\ ~is_consensus_seed_set(chain[last.holder])

NoSealedFile == \A p \in Paths : sealed[p] = None

\* C9: a Keychain built while neither sealed file exists has all five
\* presence queries false and all five accessors returning an error.
C9_FreshKeychainEmpty ==
    (last.op = "new" /\ NoSealedFile) =>
      LET k == chain[last.holder]
      IN /\ ~is_registration_key_set(k)
         /\ ~is_consensus_seed_set(k)
         /\ ~is_consensus_state_ikm_set(k)
         /\ ~is_consensus_seed_exchange_keypair_set(k)
         /\ ~is_consensus_io_exchange_keypair_set(k)
         /\ ~get_registration_key(k).ok
         /\ ~get_consensus_seed(k).ok
         /\ ~get_consensus_state_ikm(k).ok
         /\ ~seed_exchange_key(k).ok
         /\ ~get_consensus_io_exchange_keypair(k).ok

\* A Keychain was just built from an empty sealed store.
C9_Witness ==
    /\ last.op = "new"
    /\ last.holder \in Locals
    /\ NoSealedFile

FullyInitialized(k) == is_consensus_seed_set(k) /\ AllDerivedSet(k)

\* C10: a derivation failure is reported to the caller, by
\* generate_consensus_master_keys and by Keychain::new alike, and afterwards
\* the Keychain is not observed with the seed and all three derived
\* materials set.
C10_DerivationFailureReported ==
    /\ (last.op = "new" /\ ~DeriveInNew(sealed).ok) =>
          /\ ~last.res.ok
          /\ ~FullyInitialized(chain[last.holder])
    /\ (last.op = "generate_consensus_master_keys" /\ ~last.res.ok) =>
          ~FullyInitialized(chain[last.holder])

\* The outcomes of a generation that a create call records as arg: the
\* generated key, or 0 for a failed generation.
Generated(outcomes, arg) ==
    {gen \in outcomes : arg = IF gen.ok THEN gen.val ELSE 0}

\* C11: create_consensus_seed and create_registration_key: a failed
\* generation returns the generation error and changes neither a Keychain
\* nor the sealed store; a successful one has the effect of set_consensus_seed
\* / set_registration_key on the generated key: on a failed seal an error and
\* the in-memory key unchanged, otherwise Ok and the generated key installed.
C11_CreateIsGenerateThenSet ==
    [][/\ last'.op = "create_consensus_seed" =>
            \A h \in Locals, gen \in Generated(GenSeed, last'.arg), sealOk \in BOOLEAN :
              CreateConsensusSeed(h, gen, sealOk) =>
                LET o == set_consensus_seed(chain[h], sealed, gen.val, sealOk) IN
                /\ ~gen.ok => (last'.res = gen /\ chain' = chain /\ sealed' = sealed)
                /\ gen.ok => (chain'[h] = o.keys /\ sealed' = o.files
                              /\ last'.res.ok = o.res.ok)
                /\ (gen.ok /\ ~sealOk) =>
                     (~last'.res.ok
                      /\ chain'[h].consensus_seed = chain[h].consensus_seed)
                /\ (gen.ok /\ sealOk) =>
                     (last'.res.ok /\ get_consensus_seed(chain'[h]) = Ok(gen.val))
       /\ last'.op = "create_registration_key" =>
            \A h \in Locals, gen \in Generated(GenKeyPair, last'.arg), sealOk \in BOOLEAN :
              CreateRegistrationKey(h, gen, sealOk) =>
                LET o == set_registration_key(chain[h], sealed, gen.val, sealOk) IN
                /\ ~gen.ok => (last'.res = gen /\ chain' = chain /\ sealed' = sealed)
                /\ gen.ok => (chain'[h] = o.keys /\ sealed' = o.files
                              /\ last'.res.ok = o.res.ok)
                /\ (gen.ok /\ ~sealOk) =>
                     (~last'.res.ok
                      /\ chain'[h].registration_key = chain[h].registration_key)
                /\ (gen.ok /\ sealOk) =>
                     (last'.res.ok /\ get_registration_key(chain'[h]) = Ok(gen.val))]_vars

\* A create_consensus_seed whose seal failed, on a Keychain that holds
\* another seed than the generated one.
C11_Witness ==
    /\ last.op = "create_consensus_seed"
    /\ ~last.res.ok
    /\ last.arg \in Seeds
    /\ is_consensus_seed_set(chain[last.holder])
    /\ get_consensus_seed(chain[last.holder]) # Ok(last.arg)

SeedHierarchy(k) ==
    <<k.consensus_seed, k.consensus_state_ikm,
      k.consensus_seed_exchange_keypair, k.consensus_io_exchange_keypair>>

RegistrationOps == {"set_registration_key", "create_registration_key"}
SeedOps ==
    {"set_consensus_seed", "create_consensus_seed", "generate_consensus_master_keys"}

\* C13: set_registration_key and create_registration_key change neither the
\* seed, the three derived keys nor the sealed seed file; set_consensus_seed,
\* create_consensus_seed and generate_consensus_master_keys change neither
\* the in-memory registration key nor the sealed registration file.
C13_RegistrationIndependentOfSeed ==
    [][/\ last'.op \in RegistrationOps =>
            /\ \A h \in Holders : SeedHierarchy(chain'[h]) = SeedHierarchy(chain[h])
            /\ sealed'[CONSENSUS_SEED_SEALING_PATH] = sealed[CONSENSUS_SEED_SEALING_PATH]
       /\ last'.op \in SeedOps =>
            /\ \A h \in Holders : chain'[h].registration_key = chain[h].registration_key
            /\ sealed'[REGISTRATION_KEY_SEALING_PATH] =
                 sealed[REGISTRATION_KEY_SEALING_PATH]]_vars

\* All three derived keys are set by a derivation while the registration key
\* is unset and the registration file is absent.
C13_Witness ==
    /\ last.op = "generate_consensus_master_keys"
    /\ last.res.ok
    /\ AllDerivedSet(chain[last.holder])
    /\ ~is_registration_key_set(chain[last.holder])
    /\ sealed[REGISTRATION_KEY_SEALING_PATH] = None

DerivedFields(k) ==
    <<k.consensus_state_ikm, k.consensus_seed_exchange_keypair,
      k.consensus_io_exchange_keypair>>

\* C14: a successful set_consensus_seed(s) changes only the in-memory seed of
\* its Keychain and the sealed seed file: the three derived keys, the
\* registration key, the other Keychains and the registration file are as
\* before.
C14_SetSeedDoesNotDerive ==
    [][last'.op = "set_consensus_seed" =>
         \A h \in Locals, s \in Seeds :
           SetConsensusSeed(h, s, TRUE) =>
             /\ last'.res.ok
             /\ chain' = [chain EXCEPT ![h].consensus_seed = Some(s)]
             /\ DerivedFields(chain'[h]) = DerivedFields(chain[h])
             /\ sealed' = [sealed EXCEPT ![CONSENSUS_SEED_SEALING_PATH] = Some(s)]]_vars

\* After a successful set_consensus_seed on a Keychain without derived keys,
\* the seed is set and no derived key is.
C14_Witness ==
    /\ last.op = "set_consensus_seed"
    /\ last.res.ok
    /\ get_consensus_seed(chain[last.holder]) = Ok(last.arg)
    /\ DerivedFields(chain[last.holder]) = <<None, None, None>>

\* C15: generate_consensus_master_keys on a Keychain whose seed is unset
\* returns Ok and changes no field of any Keychain and no sealed file.
C15_GenerateWithoutSeedIsNoOp ==
    [][last'.op = "generate_consensus_master_keys" =>
         \A h \in Locals :
           (GenerateConsensusMasterKeys(h) /\ ~is_consensus_seed_set(chain[h])) =>
             (last'.res.ok /\ chain' = chain /\ sealed' = sealed)]_vars

\* generate_consensus_master_keys has returned Ok on a Keychain without seed.
C15_Witness ==
    /\ last.op = "generate_consensus_master_keys"
    /\ last.res.ok
    /\ ~is_consensus_seed_set(chain[last.holder])

SxOf(seed) ==
    KeyPair_new_from_slice(
      derive_key_from_this(seed, CONSENSUS_SEED_EXCHANGE_KEYPAIR_DERIVE_ORDER))
IoOf(seed) ==
    KeyPair_new_from_slice(
      derive_key_from_this(seed, CONSENSUS_IO_EXCHANGE_KEYPAIR_DERIVE_ORDER))
IkmOf(seed) ==
    AESKey_new_from_slice(
      derive_key_from_this(seed, CONSENSUS_STATE_IKM_DERIVE_ORDER))

\* C19: generate_consensus_master_keys commits seed exchange key pair, I/O
\* exchange key pair, state key in this order and stops at the first failure:
\* when the seed exchange key pair is rejected all three derived fields are
\* unchanged; when the I/O exchange key pair is rejected the seed exchange key
\* pair is the one of the current seed and the other two are unchanged; the
\* state key step does not fail.
C19_DerivationOrder ==
    [][last'.op = "generate_consensus_master_keys" =>
         \A h \in Locals :
           (GenerateConsensusMasterKeys(h) /\ is_consensus_seed_set(chain[h])) =>
             LET seed == unwrap(chain[h].consensus_seed)
                 k == chain[h]
                 k2 == chain'[h]
             IN /\ ~SxOf(seed).ok =>
                     (~last'.res.ok /\ DerivedFields(k2) = DerivedFields(k))
                /\ (SxOf(seed).ok /\ ~IoOf(seed).ok) =>
                     /\ ~last'.res.ok
                     /\ seed_exchange_key(k2) = SxOf(seed)
                     /\ k2.consensus_io_exchange_keypair = k.consensus_io_exchange_keypair
                     /\ k2.consensus_state_ikm = k.consensus_state_ikm
                /\ (SxOf(seed).ok /\ IoOf(seed).ok) =>
                     /\ last'.res.ok
                     /\ seed_exchange_key(k2) = SxOf(seed)
                     /\ get_consensus_io_exchange_keypair(k2) = IoOf(seed)
                     /\ get_consensus_state_ikm(k2) = Ok(IkmOf(seed))]_vars

\* A derivation stopped at the I/O exchange key pair: the seed exchange key
\* pair is the one of the current seed, the state key is still the one of an
\* earlier seed.
C19_Witness ==
    /\ last.op = "generate_consensus_master_keys"
    /\ ~last.res.ok
    /\ is_consensus_seed_set(chain[last.holder])
    /\ seed_exchange_key(chain[last.holder]) =
         SxOf(unwrap(chain[last.holder].consensus_seed))
    /\ is_consensus_state_ikm_set(chain[last.holder])
    /\ get_consensus_state_ikm(chain[last.holder]) #
         Ok(IkmOf(unwrap(chain[last.holder].consensus_seed)))

SameSeed(h1, h2) ==
    /\ {h1, h2} \subseteq built
    /\ is_consensus_seed_set(chain[h1])
    /\ chain[h1].consensus_seed = chain[h2].consensus_seed

\* k1 and k2 agree on the keys that a derivation from k1's seed commits.
HoldsDerivedOf(k1, k2, res) ==
    LET seed == unwrap(k1.consensus_seed) IN
    /\ SxOf(seed).ok =>
         k1.consensus_seed_exchange_keypair = k2.consensus_seed_exchange_keypair
    /\ res.ok => DerivedFields(k1) = DerivedFields(k2)

\* C16: derivation is idempotent and deterministic: after every
\* generate_consensus_master_keys call a second call on the same Keychain
\* leaves the same fields and returns the same result; and when the Keychain
\* it ran on holds the same seed as KEY_MANAGER, whose derivation ran in
\* Keychain::new, the two hold the same derived keys (the same seed exchange
\* key pair when only that one is accepted, all three when both key pairs are).
C16_DerivationDeterministic ==
    [][last'.op = "generate_consensus_master_keys" =>
         \A h \in Locals :
           GenerateConsensusMasterKeys(h) =>
             /\ generate_consensus_master_keys(chain'[h]) =
                  Outcome(chain'[h], last'.res)
             /\ (KEY_MANAGER \in built'
                 /\ is_consensus_seed_set(chain'[h])
                 /\ chain'[h].consensus_seed = chain'[KEY_MANAGER].consensus_seed) =>
                  HoldsDerivedOf(chain'[h], chain'[KEY_MANAGER], last'.res)]_vars

\* generate_consensus_master_keys has returned Ok on a Keychain that holds
\* the seed of KEY_MANAGER, and the two hold the same three derived keys.
C16_Witness ==
    /\ last.op = "generate_consensus_master_keys"
    /\ last.res.ok
    /\ last.holder # KEY_MANAGER
    /\ SameSeed(last.holder, KEY_MANAGER)
    /\ DerivedFields(chain[last.holder]) = DerivedFields(chain[KEY_MANAGER])

\* What h holds in memory of the seed and of the registration key is what
\* the sealed file at the matching path holds.
InMemoryIsSealed(h) ==
    /\ is_consensus_seed_set(chain[h]) =>
         unseal(sealed, CONSENSUS_SEED_SEALING_PATH) = get_consensus_seed(chain[h])
    /\ is_registration_key_set(chain[h]) =>
         unseal(sealed, REGISTRATION_KEY_SEALING_PATH) = get_registration_key(chain[h])

\* C12 as stated: in every reachable state of one Keychain, the one between
\* a seal and its commit included, a seed (resp. registration key) that is
\* set in memory is the one the sealed file at the seed (resp. registration)
\* path holds.
C12_AsStated == \A h \in Locals : InMemoryIsSealed(h)

\* C12, amended: a sealed file changes only by a seal and then holds the key
\* being set, so it holds the old or the new key in every state, also when
\* the process stops between the seal and the commit; and in every state
\* that is not between the seal and the commit of a set call, a seed (resp.
\* registration key) set in memory is the one the sealed file at its path
\* holds.
C12_SealThenCommit ==
    [][/\ \A p \in Paths :
            sealed'[p] # sealed[p] =>
              /\ last'.op \in IF p = CONSENSUS_SEED_SEALING_PATH
                              THEN {SealedSeed, SealedCreatedSeed}
                              ELSE {SealedRegistrationKey, SealedCreatedRegistrationKey}
              /\ sealed'[p] = Some(last'.arg)
       /\ (InCall /\ last'.op = "crash") =>
            /\ prev' = last
            /\ sealed' = sealed
            /\ \A h \in Locals : ~is_consensus_seed_set(chain'[h])
                                 /\ ~is_registration_key_set(chain'[h])
       /\ ~InCall' => \A h \in Locals : InMemoryIsSealed(h)']_vars

\* The process has stopped between the seal and the commit of a
\* set_consensus_seed: no Keychain is left and the sealed seed file holds the
\* seed that was being set.
C12_Witness ==
    /\ last.op = "crash"
    /\ built = {}
    /\ prev.op = SealedSeed
    /\ sealed[CONSENSUS_SEED_SEALING_PATH] = Some(prev.arg)

FieldNames ==
    {"consensus_seed", "consensus_state_ikm", "consensus_seed_exchange_keypair",
     "consensus_io_exchange_keypair", "registration_key"}

AccessorOf(f) ==
    CASE f = "consensus_seed" -> "get_consensus_seed"
      [] f = "consensus_state_ikm" -> "get_consensus_state_ikm"
      [] f = "consensus_seed_exchange_keypair" -> "seed_exchange_key"
      [] f = "consensus_io_exchange_keypair" -> "get_consensus_io_exchange_keypair"
      [] f = "registration_key" -> "get_registration_key"

IsSet(f, k) ==
    CASE f = "consensus_seed" -> is_consensus_seed_set(k)
      [] f = "consensus_state_ikm" -> is_consensus_state_ikm_set(k)
      [] f = "consensus_seed_exchange_keypair" -> is_consensus_seed_exchange_keypair_set(k)
      [] f = "consensus_io_exchange_keypair" -> is_consensus_io_exchange_keypair_set(k)
      [] f = "registration_key" -> is_registration_key_set(k)

Observers ==
    {"get_consensus_seed", "get_consensus_state_ikm", "seed_exchange_key",
     "get_consensus_io_exchange_keypair", "get_registration_key",
     "is_consensus_seed_set", "is_consensus_state_ikm_set",
     "is_consensus_seed_exchange_keypair_set", "is_consensus_io_exchange_keypair_set",
     "is_registration_key_set"}

\* An accessor's result res, against the matching query's answer and the field.
AccessorAgrees(res, isSet, field) ==
    /\ res.ok = isSet
    /\ res.ok => field = Some(res.val)

\* A query's result res, against the field.
QueryAgrees(res, field) == res = Ok(field # None)

\* The result res of the accessor or query op on the Keychain k is right.
ObservationAgrees(op, res, k) ==
    CASE op = "get_consensus_seed" ->
           AccessorAgrees(res, is_consensus_seed_set(k), k.consensus_seed)
      [] op = "get_consensus_state_ikm" ->
           AccessorAgrees(res, is_consensus_state_ikm_set(k), k.consensus_state_ikm)
      [] op = "seed_exchange_key" ->
           AccessorAgrees(res, is_consensus_seed_exchange_keypair_set(k),
                          k.consensus_seed_exchange_keypair)
      [] op = "get_consensus_io_exchange_keypair" ->
           AccessorAgrees(res, is_consensus_io_exchange_keypair_set(k),
                          k.consensus_io_exchange_keypair)
      [] op = "get_registration_key" ->
           AccessorAgrees(res, is_registration_key_set(k), k.registration_key)
      [] op = "is_consensus_seed_set" -> QueryAgrees(res, k.consensus_seed)
      [] op = "is_consensus_state_ikm_set" -> QueryAgrees(res, k.consensus_state_ikm)
      [] op = "is_consensus_seed_exchange_keypair_set" ->
           QueryAgrees(res, k.consensus_seed_exchange_keypair)
      [] op = "is_consensus_io_exchange_keypair_set" ->
           QueryAgrees(res, k.consensus_io_exchange_keypair)
      [] op = "is_registration_key_set" -> QueryAgrees(res, k.registration_key)

\* C17: for each of the five fields, a call of the accessor returns Ok exactly
\* when the matching is_*_set query is true of the Keychain, the value it
\* returns is the stored one, the query returns whether the field is set, and
\* neither call changes a field of any Keychain or a sealed file.
C17_AccessorsMatchQueries ==
    [][last'.op \in Observers =>
         /\ chain' = chain
         /\ sealed' = sealed
         /\ ObservationAgrees(last'.op, last'.res, chain[last'.holder])]_vars

\* get_consensus_io_exchange_keypair has failed on a Keychain whose seed
\* exchange key pair is set.
C17_Witness ==
    /\ last.op = "get_consensus_io_exchange_keypair"
    /\ ~last.res.ok
    /\ is_consensus_seed_exchange_keypair_set(chain[last.holder])
    /\ ~is_consensus_io_exchange_keypair_set(chain[last.holder])

\* C18: no operation panics, that is, no accessor and no derivation unwraps
\* an unset field on a Keychain of a reachable state; and every failure is
\* returned to the caller: a derivation that fails makes the operation it
\* runs in, generate_consensus_master_keys or Keychain::new, return an error.
C18_NoPanicFailuresReturned ==
    /\ \A h \in built :
         /\ ~Panics(unwraps_get_consensus_state_ikm(chain[h]))
         /\ ~Panics(unwraps_get_consensus_seed(chain[h]))
         /\ ~Panics(unwraps_seed_exchange_key(chain[h]))
         /\ ~Panics(unwraps_get_consensus_io_exchange_keypair(chain[h]))
         /\ ~Panics(unwraps_get_registration_key(chain[h]))
         /\ ~Panics(unwraps_generate_consensus_master_keys(chain[h]))
    /\ \A f \in FieldNames :
         (last.op = AccessorOf(f) /\ ~IsSet(f, chain[last.holder])) => ~last.res.ok
    /\ (last.op = "generate_consensus_master_keys"
        /\ is_consensus_seed_set(chain[last.holder])
        /\ ~(SxOf(unwrap(chain[last.holder].consensus_seed)).ok
             /\ IoOf(unwrap(chain[last.holder].consensus_seed)).ok)) => ~last.res.ok
    /\ (last.op = "new" /\ ~DeriveInNew(sealed).ok) => ~last.res.ok
====
